---- MODULE Spec2Model ----
(***************************************************************************)
(* Model of the voting backend: the vote admission handler (POST /votes),  *)
(* the eligibility query (GET /votes/can-vote/:pollId), the poll result    *)
(* handler (GET /polls/:id), the Redis helpers and the PostgreSQL schema   *)
(* they run against.                                                       *)
(*                                                                         *)
(* Every `await` of a handler is one action, so that other requests may    *)
(* run between two awaits exactly as on the Node event loop.               *)
(***************************************************************************)
EXTENDS Integers, FiniteSets, Sequences, TLC

(***************************************************************************)
(* Bounds of the model.                                                    *)
(***************************************************************************)
MaxReq == 3          \* request slots; all are used by SpecRace
MaxConc == 2         \* requests of one run of Spec
MaxSeqReq == 2       \* requests of one run of SpecSeq
MaxVoters == 40      \* users that own pre-existing vote rows (SpecPct)
MaxTicks == 2        \* clock advances of one run
MaxFaults == 1       \* store statements that fail in one run
MaxOutages == 1      \* times Redis becomes unreachable in one run
PoolSize == 2        \* connections of the pg pool (scaled down)

(***************************************************************************)
(* Program constants (seconds).                                            *)
(***************************************************************************)
MarkerTTL == 90000     \* 25 * 60 * 60
SnapshotTTL == 300
TokenTTL == 604800     \* expiresIn: '7d'
DaySeconds == 86400    \* one calendar day, the unit of toISOString's date
MantissaBits == 53     \* significand of a JavaScript number
T0 == DaySeconds       \* the clock when the run starts: 00:00:00 of day 1

NULL == 0 - 1          \* SQL NULL / JS null in a timestamp column
NoUser == 0            \* req.user = null (optionalAuth without a token)

Req == 1..MaxReq
Requesters == {1, 2}        \* the authenticated users that send requests
Voters == 1..MaxVoters

PollIds == {"p1", "p2", "p3", "p4"}
Options == {"o1", "o2", "o3"}
BadId == "bad"              \* an optionId that is not a uuid
GhostId == "o9"             \* a uuid that no poll_options row carries
Jumps == {1, SnapshotTTL, DaySeconds, MarkerTTL}
DayJumps == {1, DaySeconds}

\* poll_options.poll_id: fixed at creation, never reassigned
OptPoll(o) == IF o = "o3" THEN "p2" ELSE "p1"

VARIABLES
    now,           \* wall clock, seconds
    ticks,         \* clock advances so far
    polls,         \* table polls: id -> row
    vote_count,    \* poll_options.vote_count: option id -> integer
    vote_records,  \* table vote_records: the committed rows
    markers,       \* Redis keys vote:<user>:<poll>:<day>
    snapshots,     \* Redis keys poll_results:<poll>
    blacklist,     \* Redis keys blacklist:<...>
    cacheUp,       \* whether Redis answers (client.isReady)
    outages,       \* times Redis has become unreachable so far
    poolFree,      \* idle connections of the pg pool
    faults,        \* store statements that have failed so far
    pc,            \* position of each request in its handler
    args,          \* inputs of each request
    resp,          \* response sent by each request
    txn,           \* uncommitted INSERT of each request's transaction
    loc,           \* local variables of each handler
    out,           \* result view sent by a GET /polls/:id request
    doneBefore     \* the requests that had finished when this one arrived

vars == <<now, ticks, polls, vote_count, vote_records, markers, snapshots,
          blacklist, cacheUp, outages, poolFree, faults, pc, args, resp, txn, loc, out, doneBefore>>

store == <<polls, vote_count, vote_records>>
cache == <<markers, snapshots, blacklist>>
env == <<now, ticks, cacheUp, outages>>

(***************************************************************************)
(* Calendar days.                                                          *)
(***************************************************************************)
\* a marker key without its date part
CacheDayIgnored(t) == 0

\* new Date().toISOString().split('T')[0]
CacheDay(t) == t \div DaySeconds

\* DATE(voted_at), CURRENT_DATE
DbDay(t) == t \div DaySeconds

(***************************************************************************)
(* The store.                                                              *)
(***************************************************************************)
PollRow(ex, act, end, cr) ==
    [exists |-> ex, is_active |-> act, end_date |-> end, creator_id |-> cr]

InitPolls ==
    [p \in PollIds |->
        CASE p = "p1" -> PollRow(TRUE, TRUE, NULL, 1)
          [] p = "p2" -> PollRow(TRUE, TRUE, T0 + 1, 2)
          [] p = "p3" -> PollRow(TRUE, FALSE, NULL, 1)
          [] OTHER    -> PollRow(FALSE, FALSE, NULL, 1)]

\* an option lookup that ignores the poll_id column
AllOptions(p) == Options

\* SELECT ... FROM poll_options WHERE poll_id = p
OptionsOf(p) == {o \in Options : OptPoll(o) = p /\ polls[p].exists}

\* UNIQUE(user_id, poll_id) keyed on a wrong column
UniqueKeyWrongColumn(v) == <<v.user_id, v.option_id>>

\* UNIQUE(user_id, poll_id)
UniqueKey(v) == <<v.user_id, v.poll_id>>

\* a double check that finds nothing
NoExistingVote(u, p, t) == {}

\* SELECT id FROM vote_records WHERE user_id AND poll_id AND DATE(voted_at) = CURRENT_DATE
ExistingVoteToday(u, p, t) ==
    {v \in vote_records :
        v.user_id = u /\ v.poll_id = p /\ DbDay(v.voted_at) = DbDay(t)}

\* the option's stored counter in place of the live count
StoredVoteCount(o) == vote_count[o]

\* SELECT COUNT(*) FROM vote_records WHERE option_id = o
CountByOption(o) == Cardinality({v \in vote_records : v.option_id = o})

\* SELECT COUNT(*) FROM vote_records WHERE poll_id = p
CountByPoll(p) == Cardinality({v \in vote_records : v.poll_id = p})

(***************************************************************************)
(* The cache.                                                              *)
(***************************************************************************)
\* client.get(`vote:${userId}:${pollId}:${today}`) === 'voted'
hasVotedToday(u, p) ==
    /\ cacheUp
    /\ \E m \in markers :
          m.user = u /\ m.poll = p /\ m.day = CacheDay(now) /\ now < m.exp

\* client.setEx(key, 25 * 60 * 60, 'voted')
markAsVoted(u, p) ==
    IF cacheUp
    THEN {m \in markers : ~(m.user = u /\ m.poll = p /\ m.day = CacheDay(now))}
            \cup {[user |-> u, poll |-> p, day |-> CacheDay(now),
                   exp |-> now + MarkerTTL]}
    ELSE markers

\* a cache whose keys never expire
getCachedNoExpiry(p) ==
    IF cacheUp THEN {s \in snapshots : s.poll = p} ELSE {}

\* client.get(`poll_results:${pollId}`)
getCachedPollResults(p) ==
    IF cacheUp THEN {s \in snapshots : s.poll = p /\ now < s.exp} ELSE {}

\* client.setEx(`poll_results:${pollId}`, ttl, JSON.stringify(results))
cachePollResults(p, view) ==
    IF cacheUp
    THEN {s \in snapshots : s.poll # p}
            \cup {[poll |-> p, view |-> view, exp |-> now + SnapshotTTL]}
    ELSE snapshots

\* the key blacklistToken writes: `blacklist:${blacklistToken}` interpolates
\* the function itself, so the key is the same text for every token
BlacklistWriteKey(t) == "blacklistToken"

\* the key isTokenBlacklisted reads: `blacklist:${token}`
BlacklistReadKey(t) == t

\* client.get(`blacklist:${token}`) === 'blacklisted', false when not ready
isTokenBlacklisted(t) ==
    /\ cacheUp
    /\ \E k \in blacklist : k.key = BlacklistReadKey(t) /\ now < k.exp

\* client.setEx(key, expirationTime, 'blacklisted'), skipped when not ready
blacklistToken(t, ttl) ==
    IF cacheUp
    THEN {k \in blacklist : k.key # BlacklistWriteKey(t)}
            \cup {[key |-> BlacklistWriteKey(t), exp |-> now + ttl]}
    ELSE blacklist

\* redisClient.del(`poll_results:${pollId}`), only when the client is ready
ClearCachedResults(p) ==
    IF cacheUp THEN {s \in snapshots : s.poll # p} ELSE snapshots

(***************************************************************************)
(* Requests.                                                               *)
(***************************************************************************)
NoArgs == [kind |-> "none", user |-> NoUser, poll |-> "p1", option |-> "o1",
           body |-> "", token |-> ""]
NoResp == [code |-> 0, reason |-> ""]
NoLoc == [t0 |-> 0, cnt |-> 0, changed |-> FALSE, opts |-> {},
          counts |-> [o \in Options |-> 0], total |-> 0, voted |-> FALSE,
          err |-> "", clients |-> 0, released |-> 0]

Reply(c, why) == [code |-> c, reason |-> why]

\* the slot a new request takes: slots are used in order, once each
NextSlot(r) == pc[r] = "idle" /\ \A q \in Req : q < r => pc[q] # "idle"

InFlight == {r \in Req : pc[r] \notin {"idle", "done"}}

TypeOK ==
    /\ now \in Nat /\ ticks \in 0..(MaxTicks + 1)
    /\ poolFree \in 0..(PoolSize + 1)
    /\ cacheUp \in BOOLEAN
    /\ \A r \in Req : Cardinality(txn[r]) <= 1 /\ Cardinality(out[r]) <= 1

InitCommon ==
    /\ now = T0
    /\ ticks = 0
    /\ polls = InitPolls
    /\ markers = {}
    /\ snapshots = {}
    /\ blacklist = {}
    /\ cacheUp \in BOOLEAN
    /\ outages = 0
    /\ poolFree = PoolSize
    /\ faults = 0
    /\ pc = [r \in Req |-> "idle"]
    /\ args = [r \in Req |-> NoArgs]
    /\ resp = [r \in Req |-> NoResp]
    /\ txn = [r \in Req |-> {}]
    /\ loc = [r \in Req |-> NoLoc]
    /\ out = [r \in Req |-> {}]
    /\ doneBefore = [r \in Req |-> {}]

Init ==
    /\ InitCommon
    /\ vote_count = [o \in Options |-> 0]
    /\ vote_records = {}

\* a request with inputs a arrives and enters its route at label l
Arrive(r, a, l) ==
    /\ NextSlot(r)
    /\ args' = [args EXCEPT ![r] = a]
    /\ doneBefore' = [doneBefore EXCEPT ![r] = {q \in Req : pc[q] = "done"}]
    /\ pc' = [pc EXCEPT ![r] = l]
    /\ UNCHANGED <<store, cache, env, poolFree, faults, resp, txn, loc, out>>

\* the first await of each route handler
Entry(k) ==
    CASE k = "vote" -> "connect"
      [] k = "canvote" -> "cpoll"
      [] k = "update" -> "ulookup"
      [] k = "delete" -> "dlookup"
      [] k = "logout" -> "logout"
      [] OTHER -> "cached"

\* a request arrives whose token, if any, has been accepted
Start(r, k, u, p, o) ==
    Arrive(r, [kind |-> k, user |-> u, poll |-> p, option |-> o,
               body |-> "", token |-> ""], Entry(k))

\* the clock advances
Tick(d) ==
    /\ ticks < MaxTicks
    /\ now' = now + d
    /\ ticks' = ticks + 1
    /\ UNCHANGED <<store, cache, cacheUp, outages, poolFree, faults, pc, args,
                   resp, txn, loc, out, doneBefore>>

\* Redis becomes unreachable: every helper takes its catch branch
CacheDown ==
    /\ cacheUp
    /\ outages < MaxOutages
    /\ cacheUp' = FALSE
    /\ outages' = outages + 1
    /\ UNCHANGED <<store, cache, now, ticks, poolFree, faults, pc, args, resp,
                   txn, loc, out, doneBefore>>

\* Redis answers again, with its keys or, after a restart, without them
CacheBack(wiped) ==
    /\ ~cacheUp
    /\ cacheUp' = TRUE
    /\ markers' = IF wiped THEN {} ELSE markers
    /\ snapshots' = IF wiped THEN {} ELSE snapshots
    /\ blacklist' = IF wiped THEN {} ELSE blacklist
    /\ UNCHANGED <<store, now, ticks, outages, poolFree, faults, pc, args, resp,
                   txn, loc, out, doneBefore>>

(***************************************************************************)
(* POST /votes: cast a vote.                                               *)
(***************************************************************************)
\* poll.end_date && new Date(poll.end_date) < new Date()
PollHasEnded(row, t) == row.end_date # NULL /\ row.end_date < t

\* the catch block without its unique_violation branch
CatchReplyNoUnique(code) == Reply(500, "Transient")

\* the catch block: 23505 is PostgreSQL's unique_violation
CatchReply(code) ==
    IF code = "23505" THEN Reply(429, "VotedUnique") ELSE Reply(500, "Transient")

\* the row the INSERT writes; voted_at defaults to CURRENT_TIMESTAMP, the
\* start time of the transaction
NewVote(r) ==
    [id |-> r, user_id |-> args[r].user, poll_id |-> args[r].poll,
     option_id |-> args[r].option, voted_at |-> loc[r].t0]

\* the INSERT waits while another open transaction holds the same unique key
InsertBlocked(r) ==
    \E q \in Req \ {r} : \E w \in txn[q] : UniqueKey(w) = UniqueKey(NewVote(r))

\* the INSERT raises unique_violation against a committed row
InsertConflicts(r) ==
    \E v \in vote_records : UniqueKey(v) = UniqueKey(NewVote(r))

\* COMMIT issued on a connection that holds no open transaction
CommittedLost(r) == vote_records

\* COMMIT of the vote transaction: the inserted row becomes visible
Committed(r) == vote_records \cup txn[r]

Goto(r, l) == pc' = [pc EXCEPT ![r] = l]

\* the connections a request has checked out and given back
Acquire(r) == [loc EXCEPT ![r].clients = @ + 1]
Release(r) == [loc EXCEPT ![r].released = @ + 1]

\* catch (error): await client.query('ROLLBACK'), then the response by
\* error.code; when the ROLLBACK itself rejects (the connection is gone) the
\* catch block is left before any response is sent.  The server drops the
\* open transaction in both cases.
CatchBlock(r, code, rolledBack) ==
    /\ resp' = [resp EXCEPT ![r] = IF rolledBack THEN CatchReply(code) ELSE @]
    /\ txn' = [txn EXCEPT ![r] = {}]
    /\ Goto(r, "release")

\* an early return: ROLLBACK, res.status(c).json(...), then the finally block
Fail(r, c, why) ==
    /\ resp' = [resp EXCEPT ![r] = Reply(c, why)]
    /\ txn' = [txn EXCEPT ![r] = {}]
    /\ Goto(r, "release")

\* const client = await pool.connect()
VoteConnect(r) ==
    /\ pc[r] = "connect"
    /\ poolFree > 0
    /\ poolFree' = poolFree - 1
    /\ loc' = Acquire(r)
    /\ Goto(r, "poll")
    /\ UNCHANGED <<store, cache, env, faults, args, resp, txn, out, doneBefore>>

\* BEGIN; voteSchema.validate; SELECT the poll; not found, inactive or ended
VotePoll(r) ==
    /\ pc[r] = "poll"
    /\ loc' = [loc EXCEPT ![r].t0 = now]
    /\ LET row == polls[args[r].poll] IN
        IF args[r].option = BadId THEN Fail(r, 400, "Invalid")
        ELSE IF ~row.exists THEN Fail(r, 404, "NotFound")
        ELSE IF ~row.is_active THEN Fail(r, 400, "PollInactive")
        ELSE IF PollHasEnded(row, now) THEN Fail(r, 400, "PollEnded")
        ELSE Goto(r, "option") /\ UNCHANGED <<resp, txn>>
    /\ UNCHANGED <<store, cache, env, poolFree, faults, args, out, doneBefore>>

\* SELECT id FROM poll_options WHERE id = $1 AND poll_id = $2
VoteOption(r) ==
    /\ pc[r] = "option"
    /\ IF args[r].option \notin OptionsOf(args[r].poll)
       THEN Fail(r, 400, "InvalidOption")
       ELSE Goto(r, "cache") /\ UNCHANGED <<resp, txn>>
    /\ UNCHANGED <<store, cache, env, poolFree, faults, args, loc, out, doneBefore>>

\* await hasVotedToday(userId, pollId)
VoteCache(r) ==
    /\ pc[r] = "cache"
    /\ IF hasVotedToday(args[r].user, args[r].poll)
       THEN Fail(r, 429, "VotedCache")
       ELSE Goto(r, "dbcheck") /\ UNCHANGED <<resp, txn>>
    /\ UNCHANGED <<store, cache, env, poolFree, faults, args, loc, out, doneBefore>>

\* the double check against vote_records
VoteDbCheck(r) ==
    /\ pc[r] = "dbcheck"
    /\ IF ExistingVoteToday(args[r].user, args[r].poll, loc[r].t0) # {}
       THEN Fail(r, 429, "VotedStore")
       ELSE Goto(r, "insert") /\ UNCHANGED <<resp, txn>>
    /\ UNCHANGED <<store, cache, env, poolFree, faults, args, loc, out, doneBefore>>

\* INSERT INTO vote_records; a unique_violation lands in the catch block
VoteInsert(r) ==
    /\ pc[r] = "insert"
    /\ ~InsertBlocked(r)
    /\ IF InsertConflicts(r)
       THEN /\ CatchBlock(r, "23505", TRUE)
            /\ loc' = [loc EXCEPT ![r].err = "23505"]
       ELSE /\ txn' = [txn EXCEPT ![r] = {NewVote(r)}]
            /\ Goto(r, "uvc_connect")
            /\ UNCHANGED <<resp, loc>>
    /\ UNCHANGED <<store, cache, env, poolFree, faults, args, out, doneBefore>>

\* the INSERT fails for another reason (statement timeout, lost connection)
VoteInsertFault(r) ==
    /\ pc[r] = "insert"
    /\ faults < MaxFaults
    /\ faults' = faults + 1
    /\ \E rolledBack \in BOOLEAN : CatchBlock(r, "57014", rolledBack)
    /\ loc' = [loc EXCEPT ![r].err = "57014"]
    /\ UNCHANGED <<store, cache, env, poolFree, args, out, doneBefore>>

\* updateVoteCount: const client = await pool.connect()
UvcConnect(r) ==
    /\ pc[r] = "uvc_connect"
    /\ poolFree > 0
    /\ poolFree' = poolFree - 1
    /\ loc' = Acquire(r)
    /\ Goto(r, "uvc_select")
    /\ UNCHANGED <<store, cache, env, faults, args, resp, txn, out, doneBefore>>

\* updateVoteCount: BEGIN; SELECT COUNT(*) on its own connection, which sees
\* committed rows only
UvcSelect(r) ==
    /\ pc[r] = "uvc_select"
    /\ loc' = [loc EXCEPT ![r].cnt = CountByOption(args[r].option)]
    /\ Goto(r, "uvc_update")
    /\ UNCHANGED <<store, cache, env, poolFree, faults, args, resp, txn, out, doneBefore>>

\* updateVoteCount: UPDATE poll_options; COMMIT; client.release()
UvcUpdate(r) ==
    /\ pc[r] = "uvc_update"
    /\ vote_count' = [vote_count EXCEPT ![args[r].option] = loc[r].cnt]
    /\ loc' = [Release(r) EXCEPT
                  ![r].changed = (vote_count[args[r].option] # loc[r].cnt)]
    /\ poolFree' = poolFree + 1
    /\ Goto(r, "mark")
    /\ UNCHANGED <<polls, vote_records, cache, env, faults, args, resp, txn, out, doneBefore>>

\* updateVoteCount fails: its ROLLBACK and release, then the outer catch block
UvcFault(r) ==
    /\ pc[r] = "uvc_select"
    /\ faults < MaxFaults
    /\ faults' = faults + 1
    /\ poolFree' = poolFree + 1
    /\ \E rolledBack \in BOOLEAN : CatchBlock(r, "57014", rolledBack)
    /\ loc' = [Release(r) EXCEPT ![r].err = "57014"]
    /\ UNCHANGED <<store, cache, env, args, out, doneBefore>>

\* await markAsVoted(userId, pollId)
VoteMark(r) ==
    /\ pc[r] = "mark"
    /\ markers' = markAsVoted(args[r].user, args[r].poll)
    /\ Goto(r, "commit")
    /\ UNCHANGED <<store, snapshots, blacklist, env, poolFree, faults, args, resp, txn, loc, out, doneBefore>>

\* await client.query('COMMIT')
VoteCommit(r) ==
    /\ pc[r] = "commit"
    /\ vote_records' = Committed(r)
    /\ txn' = [txn EXCEPT ![r] = {}]
    /\ Goto(r, "invalidate")
    /\ UNCHANGED <<polls, vote_count, cache, env, poolFree, faults, args, resp, loc, out, doneBefore>>

\* COMMIT fails: the catch block rolls back and answers 500
VoteCommitFault(r) ==
    /\ pc[r] = "commit"
    /\ faults < MaxFaults
    /\ faults' = faults + 1
    /\ \E rolledBack \in BOOLEAN : CatchBlock(r, "57014", rolledBack)
    /\ loc' = [loc EXCEPT ![r].err = "57014"]
    /\ UNCHANGED <<store, cache, env, poolFree, args, out, doneBefore>>

\* clear the cached results, then res.status(201)
VoteInvalidate(r) ==
    /\ pc[r] = "invalidate"
    /\ snapshots' = ClearCachedResults(args[r].poll)
    /\ resp' = [resp EXCEPT ![r] = Reply(201, "Created")]
    /\ Goto(r, "release")
    /\ UNCHANGED <<store, markers, blacklist, env, poolFree, faults, args, txn, loc, out, doneBefore>>

\* a handler that ends without its finally block
VoteReleaseSkipped(r) ==
    /\ pc[r] = "release"
    /\ Goto(r, "done")
    /\ UNCHANGED <<store, cache, env, poolFree, faults, args, resp, txn, loc, out,
                   doneBefore>>

\* finally { client.release() }
VoteRelease(r) ==
    /\ pc[r] = "release"
    /\ poolFree' = poolFree + 1
    /\ loc' = Release(r)
    /\ Goto(r, "done")
    /\ UNCHANGED <<store, cache, env, faults, args, resp, txn, out, doneBefore>>

castVote(r) ==
    \/ VoteConnect(r) \/ VotePoll(r) \/ VoteOption(r) \/ VoteCache(r)
    \/ VoteDbCheck(r) \/ VoteInsert(r) \/ UvcConnect(r) \/ UvcSelect(r)
    \/ UvcUpdate(r) \/ VoteMark(r) \/ VoteCommit(r) \/ VoteInvalidate(r)
    \/ VoteRelease(r)

castVoteFault(r) == VoteInsertFault(r) \/ UvcFault(r) \/ VoteCommitFault(r)

(***************************************************************************)
(* GET /polls/:id: the result view.                                        *)
(***************************************************************************)
(* JavaScript numbers are IEEE 754 doubles.  The quotient and the product  *)
(* of the percentage are each rounded to a 53-bit significand; they are    *)
(* computed here on binary digit sequences, least significant digit first. *)
RECURSIVE NatBits(_)
NatBits(n) == IF n = 0 THEN <<>> ELSE <<n % 2>> \o NatBits(n \div 2)

RECURSIVE BitsNat(_)
BitsNat(s) == IF s = <<>> THEN 0 ELSE Head(s) + 2 * BitsNat(Tail(s))

RECURSIVE TimesSmall(_, _, _)
TimesSmall(s, k, carry) ==
    IF s = <<>> THEN NatBits(carry)
    ELSE LET x == Head(s) * k + carry
         IN  <<x % 2>> \o TimesSmall(Tail(s), k, x \div 2)

RECURSIVE PlusOne(_)
PlusOne(s) ==
    IF s = <<>> THEN <<1>>
    ELSE IF Head(s) = 0 THEN <<1>> \o Tail(s)
    ELSE <<0>> \o PlusOne(Tail(s))

Reverse(s) == [i \in 1..Len(s) |-> s[Len(s) + 1 - i]]

RECURSIVE Pow2(_)
Pow2(n) == IF n = 0 THEN 1 ELSE 2 * Pow2(n - 1)

\* an exact product rounded to the nearest double, ties to even
RoundToDouble(s) ==
    IF Len(s) <= MantissaBits THEN [m |-> s, dropped |-> 0]
    ELSE LET d == Len(s) - MantissaBits
             kept == SubSeq(s, d + 1, Len(s))
             sticky == \E i \in 1..(d - 1) : s[i] = 1
             up == s[d] = 1 /\ (sticky \/ kept[1] = 1)
         IN  [m |-> IF up THEN PlusOne(kept) ELSE kept, dropped |-> d]

\* the number of doublings that bring c / t into [1, 2)
RECURSIVE LeadShift(_, _)
LeadShift(c, t) == IF c >= t THEN 0 ELSE 1 + LeadShift(2 * c, t)

\* the next n binary digits of r / t, most significant first
RECURSIVE DivBits(_, _, _)
DivBits(r, t, n) ==
    IF n = 0 THEN <<>>
    ELSE IF 2 * r >= t THEN <<1>> \o DivBits(2 * r - t, t, n - 1)
    ELSE <<0>> \o DivBits(2 * r, t, n - 1)

\* the remainder left after those n digits
RECURSIVE DivRem(_, _, _)
DivRem(r, t, n) ==
    IF n = 0 THEN r
    ELSE IF 2 * r >= t THEN DivRem(2 * r - t, t, n - 1)
    ELSE DivRem(2 * r, t, n - 1)

\* c / t for 0 < c < t: the nearest double, m * 2^(-exp)
DoubleQuotient(c, t) ==
    LET e == LeadShift(c, t)
        r0 == c * Pow2(e) - t
        bits == Reverse(<<1>> \o DivBits(r0, t, MantissaBits - 1))
        rem == DivRem(r0, t, MantissaBits - 1)
        up == 2 * rem > t \/ (2 * rem = t /\ bits[1] = 1)
    IN  [m |-> IF up THEN PlusOne(bits) ELSE bits, exp |-> e + MantissaBits - 1]

\* Math.round(x) for x = m * 2^(-s): floor(x + 1/2)
MathRound(m, s) ==
    LET n == Len(m)
        half == IF s >= 1 /\ s <= n THEN m[s] ELSE 0
        int == IF n > s THEN BitsNat(SubSeq(m, s + 1, n)) ELSE 0
    IN  int + half

\* Math.round((c / t) * 100) for 0 <= c <= t, t > 0; the handler reads the
\* option counts before the total and rows are only added in between
RoundPct(c, t) ==
    IF c = 0 THEN 0
    ELSE IF c >= t THEN 100
    ELSE LET q == DoubleQuotient(c, t)
             p == RoundToDouble(TimesSmall(q.m, 100, 0))
         IN  MathRound(p.m, q.exp - p.dropped)

\* totalVotes > 0 ? Math.round((option.actual_vote_count / totalVotes) * 100) : 0
Percentage(c, t) == IF t > 0 THEN RoundPct(c, t) ELSE 0

\* the result object assembled from the handler's query results
BuildView(r) ==
    [poll |-> args[r].poll,
     opts |-> loc[r].opts,
     totalVotes |-> loc[r].total,
     voteCount |-> loc[r].counts,
     percentage |-> [o \in Options |->
                        IF o \in loc[r].opts
                        THEN Percentage(loc[r].counts[o], loc[r].total) ELSE 0],
     hasVotedToday |-> loc[r].voted,
     canEdit |-> (args[r].user = polls[args[r].poll].creator_id)]

\* getCachedPollResults: a hit is returned verbatim
ResCached(r) ==
    /\ pc[r] = "cached"
    /\ LET hit == getCachedPollResults(args[r].poll) IN
        IF hit # {}
        THEN /\ out' = [out EXCEPT ![r] = {s.view : s \in hit}]
             /\ resp' = [resp EXCEPT ![r] = Reply(200, "Cached")]
             /\ Goto(r, "done")
        ELSE Goto(r, "rpoll") /\ UNCHANGED <<out, resp>>
    /\ loc' = [loc EXCEPT ![r].t0 = now]
    /\ UNCHANGED <<store, cache, env, poolFree, faults, args, txn, doneBefore>>

\* SELECT the poll joined with its creator
ResPoll(r) ==
    /\ pc[r] = "rpoll"
    /\ poolFree > 0
    /\ IF ~polls[args[r].poll].exists
       THEN /\ resp' = [resp EXCEPT ![r] = Reply(404, "NotFound")]
            /\ Goto(r, "done")
       ELSE Goto(r, "ropts") /\ UNCHANGED resp
    /\ UNCHANGED <<store, cache, env, poolFree, faults, args, txn, loc, out, doneBefore>>

\* the options with COUNT(vr.id) as actual_vote_count
ResOptions(r) ==
    /\ pc[r] = "ropts"
    /\ poolFree > 0
    /\ loc' = [loc EXCEPT ![r].opts = OptionsOf(args[r].poll),
                          ![r].counts = [o \in Options |->
                              IF o \in OptionsOf(args[r].poll)
                              THEN CountByOption(o) ELSE 0]]
    /\ Goto(r, "rtotal")
    /\ UNCHANGED <<store, cache, env, poolFree, faults, args, resp, txn, out, doneBefore>>

\* SELECT COUNT(*) as total FROM vote_records WHERE poll_id = $1
ResTotal(r) ==
    /\ pc[r] = "rtotal"
    /\ poolFree > 0
    /\ loc' = [loc EXCEPT ![r].total = CountByPoll(args[r].poll)]
    /\ Goto(r, IF args[r].user # NoUser THEN "rvoted" ELSE "rbuild")
    /\ UNCHANGED <<store, cache, env, poolFree, faults, args, resp, txn, out, doneBefore>>

\* userHasVotedToday = await hasVotedToday(req.user.userId, pollId)
ResVotedCache(r) ==
    /\ pc[r] = "rvoted"
    /\ IF hasVotedToday(args[r].user, args[r].poll)
       THEN loc' = [loc EXCEPT ![r].voted = TRUE] /\ Goto(r, "rbuild")
       ELSE Goto(r, "rvoteddb") /\ UNCHANGED loc
    /\ UNCHANGED <<store, cache, env, poolFree, faults, args, resp, txn, out, doneBefore>>

\* the fallback query on vote_records
ResVotedDb(r) ==
    /\ pc[r] = "rvoteddb"
    /\ poolFree > 0
    /\ loc' = [loc EXCEPT ![r].voted =
                  (ExistingVoteToday(args[r].user, args[r].poll, now) # {})]
    /\ Goto(r, "rbuild")
    /\ UNCHANGED <<store, cache, env, poolFree, faults, args, resp, txn, out, doneBefore>>

\* assemble the result, cachePollResults(pollId, result, 300), res.json(result)
ResBuild(r) ==
    /\ pc[r] = "rbuild"
    /\ snapshots' = cachePollResults(args[r].poll, BuildView(r))
    /\ out' = [out EXCEPT ![r] = {BuildView(r)}]
    /\ resp' = [resp EXCEPT ![r] = Reply(200, "Computed")]
    /\ Goto(r, "done")
    /\ UNCHANGED <<store, markers, blacklist, env, poolFree, faults, args, txn, loc, doneBefore>>

getResultsAnon(r) ==
    \/ ResCached(r) \/ ResPoll(r) \/ ResOptions(r) \/ ResTotal(r) \/ ResBuild(r)

getResultsUser(r) == ResVotedCache(r) \/ ResVotedDb(r)

(***************************************************************************)
(* GET /votes/can-vote/:pollId: the eligibility query.                     *)
(***************************************************************************)
\* res.json({ canVote, reason })
CanReply(r, c, why) ==
    /\ resp' = [resp EXCEPT ![r] = Reply(c, why)]
    /\ Goto(r, "done")

\* SELECT is_active, end_date FROM polls: missing, inactive or ended
CanPoll(r) ==
    /\ pc[r] = "cpoll"
    /\ poolFree > 0
    /\ LET row == polls[args[r].poll] IN
        IF ~row.exists THEN CanReply(r, 404, "NotFound")
        ELSE IF ~row.is_active THEN CanReply(r, 200, "NotActive")
        ELSE IF PollHasEnded(row, now) THEN CanReply(r, 200, "Ended")
        ELSE Goto(r, "ccache") /\ UNCHANGED resp
    /\ loc' = [loc EXCEPT ![r].t0 = now]
    /\ UNCHANGED <<store, cache, env, poolFree, faults, args, txn, out, doneBefore>>

\* an eligibility query that records the voter as having voted
CanCacheMarks(r) ==
    /\ pc[r] = "ccache"
    /\ markers' = markAsVoted(args[r].user, args[r].poll)
    /\ Goto(r, "cdb")
    /\ UNCHANGED <<store, snapshots, blacklist, env, poolFree, faults, args, resp, txn, loc,
                   out, doneBefore>>

\* await hasVotedToday(userId, pollId)
CanCache(r) ==
    /\ pc[r] = "ccache"
    /\ IF hasVotedToday(args[r].user, args[r].poll)
       THEN CanReply(r, 200, "AlreadyVoted")
       ELSE Goto(r, "cdb") /\ UNCHANGED resp
    /\ UNCHANGED <<store, cache, env, poolFree, faults, args, txn, loc, out, doneBefore>>

\* the double check against vote_records, then canVote: true
CanDb(r) ==
    /\ pc[r] = "cdb"
    /\ poolFree > 0
    /\ IF ExistingVoteToday(args[r].user, args[r].poll, now) # {}
       THEN CanReply(r, 200, "AlreadyVoted")
       ELSE CanReply(r, 200, "CanVote")
    /\ UNCHANGED <<store, cache, env, poolFree, faults, args, txn, loc, out, doneBefore>>

\* a pool.query of the handler rejects: the catch block answers 500
CanFault(r) ==
    /\ pc[r] \in {"cpoll", "cdb"}
    /\ faults < MaxFaults
    /\ faults' = faults + 1
    /\ CanReply(r, 500, "Transient")
    /\ UNCHANGED <<store, cache, env, poolFree, args, txn, loc, out, doneBefore>>

canVoteToday(r) == CanPoll(r) \/ CanCache(r) \/ CanDb(r)

(***************************************************************************)
(* authenticateToken and POST /logout.                                     *)
(***************************************************************************)
Tokens == {"t1", "t2"}

\* the userId in the token's payload
TokenUser(t) == IF t = "t1" THEN 1 ELSE 2

\* decoded.exp: the tokens were signed at T0 with expiresIn '7d'
TokenExp(t) == T0 + TokenTTL

\* authenticateToken: blacklisted -> 401, jwt.verify (expired -> 401), next()
AuthToken(r) ==
    /\ pc[r] = "auth"
    /\ loc' = [loc EXCEPT ![r].t0 = now]
    /\ IF isTokenBlacklisted(args[r].token)
       THEN CanReply(r, 401, "Invalidated")
       ELSE IF now >= TokenExp(args[r].token)
       THEN CanReply(r, 401, "Expired")
       ELSE Goto(r, Entry(args[r].kind)) /\ UNCHANGED resp
    /\ UNCHANGED <<store, cache, env, poolFree, faults, args, txn, out, doneBefore>>

\* logout: blacklistToken(token, decoded.exp - now) when that is positive
Logout(r) ==
    /\ pc[r] = "logout"
    /\ LET expirationTime == TokenExp(args[r].token) - now IN
        blacklist' = IF expirationTime > 0
                     THEN blacklistToken(args[r].token, expirationTime)
                     ELSE blacklist
    /\ CanReply(r, 200, "LoggedOut")
    /\ UNCHANGED <<store, markers, snapshots, env, poolFree, faults, args, txn,
                   loc, out, doneBefore>>

(***************************************************************************)
(* PUT /polls/:id and DELETE /polls/:id.                                   *)
(***************************************************************************)
\* a creator check that lets everyone through
AnyoneIsCreator(row, u) == TRUE

\* pollResult.rows[0].creator_id !== req.user.userId
IsCreator(row, u) == row.creator_id = u

\* request bodies of PUT: { isActive: false }, {} and an endDate that is not
\* greater than now
Bodies == {"close", "none", "past"}

\* updateSchema.validate, then the lookup: 400, 404, 403, 400 (no fields)
PutLookup(r) ==
    /\ pc[r] = "ulookup"
    /\ poolFree > 0
    /\ LET row == polls[args[r].poll] IN
        IF args[r].body = "past" THEN CanReply(r, 400, "Invalid")
        ELSE IF ~row.exists THEN CanReply(r, 404, "NotFound")
        ELSE IF ~IsCreator(row, args[r].user) THEN CanReply(r, 403, "Forbidden")
        ELSE IF args[r].body = "none" THEN CanReply(r, 400, "NoFields")
        ELSE Goto(r, "uupdate") /\ UNCHANGED resp
    /\ UNCHANGED <<store, cache, env, poolFree, faults, args, txn, loc, out, doneBefore>>

\* the UPDATE.  Its text is built with `${dbKey} = ${paramCount++}` and
\* `WHERE id = ${paramCount}`, i.e. "is_active = 1 ... WHERE id = 2" with no
\* $n placeholder: PostgreSQL rejects the statement (uuid = integer, and two
\* values bound to a statement without parameters) and the catch block
\* answers 500.
PutUpdate(r) ==
    /\ pc[r] = "uupdate"
    /\ poolFree > 0
    /\ CanReply(r, 500, "UpdateFailed")
    /\ UNCHANGED <<store, cache, env, poolFree, faults, args, txn, loc, out, doneBefore>>

\* the lookup of DELETE: 404 or 403
DelLookup(r) ==
    /\ pc[r] = "dlookup"
    /\ poolFree > 0
    /\ LET row == polls[args[r].poll] IN
        IF ~row.exists THEN CanReply(r, 404, "NotFound")
        ELSE IF ~IsCreator(row, args[r].user) THEN CanReply(r, 403, "Forbidden")
        ELSE Goto(r, "ddelete") /\ UNCHANGED resp
    /\ UNCHANGED <<store, cache, env, poolFree, faults, args, txn, loc, out, doneBefore>>

\* DELETE FROM polls WHERE id = $1; poll_options and vote_records go with
\* the row (ON DELETE CASCADE).  The cache is not touched.
DelDelete(r) ==
    /\ pc[r] = "ddelete"
    /\ poolFree > 0
    /\ polls' = [polls EXCEPT ![args[r].poll].exists = FALSE]
    /\ vote_records' = {v \in vote_records : v.poll_id # args[r].poll}
    /\ vote_count' = [o \in Options |->
                         IF OptPoll(o) = args[r].poll THEN 0 ELSE vote_count[o]]
    /\ CanReply(r, 200, "Deleted")
    /\ UNCHANGED <<cache, env, poolFree, faults, args, txn, loc, out, doneBefore>>

updatePoll(r) == PutLookup(r) \/ PutUpdate(r)

deletePoll(r) == DelLookup(r) \/ DelDelete(r)

(***************************************************************************)
(* Spec: concurrent requests on poll p1 at one instant, with store faults. *)
(* Votes come from authenticated users, result reads from anonymous ones.  *)
(***************************************************************************)
StartVote(r) ==
    \E u \in Requesters, o \in OptionsOf("p1") : Start(r, "vote", u, "p1", o)

StartResults(r) == Start(r, "results", NoUser, "p1", "o1")

Next ==
    \E r \in Req :
        \/ r <= MaxConc /\ StartVote(r)
        \/ r <= MaxConc /\ StartResults(r)
        \/ castVote(r)
        \/ castVoteFault(r)
        \/ getResultsAnon(r)

Spec == Init /\ [][Next]_vars

(***************************************************************************)
(* SpecRace: as Spec, with every request slot in use.                      *)
(***************************************************************************)
NextRace ==
    \E r \in Req :
        \/ StartVote(r)
        \/ StartResults(r)
        \/ castVote(r)
        \/ castVoteFault(r)
        \/ getResultsAnon(r)

SpecRace == Init /\ [][NextRace]_vars

(***************************************************************************)
(* SpecSeq: requests one after the other on any poll, the clock advancing  *)
(* between them.                                                           *)
(***************************************************************************)
\* a poll with one of its options, an option of another poll, and the polls
\* that are inactive or missing
VoteTargets ==
    {<<"p1", "o1">>, <<"p1", "o2">>, <<"p1", "o3">>, <<"p2", "o3">>,
     <<"p3", "o1">>, <<"p4", "o1">>}

StartVoteSeq(r) ==
    /\ InFlight = {}
    /\ r <= MaxSeqReq
    /\ \E u \in Requesters, t \in VoteTargets : Start(r, "vote", u, t[1], t[2])

StartResultsSeq(r) ==
    /\ InFlight = {}
    /\ r <= MaxSeqReq
    /\ \E u \in {NoUser} \cup Requesters, p \in {"p1", "p4"} :
          Start(r, "results", u, p, "o1")

TickSeq(d) == InFlight = {} /\ Tick(d)

NextSeq ==
    \/ \E d \in Jumps : TickSeq(d)
    \/ \E r \in Req :
        \/ StartVoteSeq(r)
        \/ StartResultsSeq(r)
        \/ castVote(r)
        \/ getResultsAnon(r)
        \/ getResultsUser(r)

SpecSeq == Init /\ [][NextSeq]_vars

(***************************************************************************)
(* SpecOps: votes and eligibility queries one after the other, on any poll *)
(* and with any body, while store statements fail, Redis goes away and     *)
(* comes back, and the clock advances.                                     *)
(***************************************************************************)
StartVoteOps(r) ==
    /\ InFlight = {}
    /\ r <= MaxSeqReq
    /\ \E u \in Requesters,
          t \in VoteTargets \cup {<<"p1", BadId>>, <<"p1", GhostId>>} :
          Start(r, "vote", u, t[1], t[2])

StartCanVote(r) ==
    /\ InFlight = {}
    /\ r <= MaxSeqReq
    /\ \E u \in Requesters, p \in PollIds : Start(r, "canvote", u, p, "o1")

NextOps ==
    \/ \E d \in DayJumps : TickSeq(d)
    \/ CacheDown
    \/ \E wiped \in BOOLEAN : CacheBack(wiped)
    \/ \E r \in Req :
        \/ StartVoteOps(r)
        \/ StartCanVote(r)
        \/ castVote(r)
        \/ castVoteFault(r)
        \/ canVoteToday(r)
        \/ CanFault(r)

SpecOps == Init /\ [][NextOps]_vars

(***************************************************************************)
(* SpecElig: eligibility queries and votes on poll p1, one after the       *)
(* other, over several days, with a healthy store and an unchanging cache. *)
(***************************************************************************)
StartVoteElig(r) ==
    /\ InFlight = {}
    /\ \E u \in Requesters, o \in OptionsOf("p1") : Start(r, "vote", u, "p1", o)

StartCanVoteElig(r) ==
    /\ InFlight = {}
    /\ \E u \in Requesters : Start(r, "canvote", u, "p1", "o1")

NextElig ==
    \/ \E d \in DayJumps : TickSeq(d)
    \/ \E r \in Req :
        \/ StartVoteElig(r)
        \/ StartCanVoteElig(r)
        \/ castVote(r)
        \/ canVoteToday(r)

SpecElig == Init /\ [][NextElig]_vars

(***************************************************************************)
(* SpecAdmin: votes, result reads, updates and deletions of polls, one     *)
(* after the other, by the creator and by another user.                    *)
(***************************************************************************)
StartVoteAdmin(r) ==
    /\ InFlight = {}
    /\ \E u \in Requesters : Start(r, "vote", u, "p1", "o1")

StartResultsAdmin(r) ==
    /\ InFlight = {}
    /\ Start(r, "results", NoUser, "p1", "o1")

StartUpdate(r) ==
    /\ InFlight = {}
    /\ \E u \in Requesters, p \in {"p1", "p4"}, b \in Bodies :
          Arrive(r, [kind |-> "update", user |-> u, poll |-> p, option |-> "o1",
                     body |-> b, token |-> ""], Entry("update"))

StartDelete(r) ==
    /\ InFlight = {}
    /\ \E u \in Requesters, p \in {"p1", "p4"} : Start(r, "delete", u, p, "o1")

NextAdmin ==
    \/ TickSeq(SnapshotTTL)
    \/ \E r \in Req :
        \/ StartVoteAdmin(r)
        \/ StartResultsAdmin(r)
        \/ StartUpdate(r)
        \/ StartDelete(r)
        \/ castVote(r)
        \/ getResultsAnon(r)
        \/ updatePoll(r)
        \/ deletePoll(r)

SpecAdmin == Init /\ [][NextAdmin]_vars

(***************************************************************************)
(* SpecAuth: logouts and eligibility queries that present a token, one     *)
(* after the other, until the tokens expire.                               *)
(***************************************************************************)
StartAuthed(r) ==
    /\ InFlight = {}
    /\ \E t \in Tokens, k \in {"logout", "canvote"}, p \in {"p1", "p3"} :
          Arrive(r, [kind |-> k, user |-> TokenUser(t), poll |-> p,
                     option |-> "o1", body |-> "", token |-> t], "auth")

NextAuth ==
    \/ \E d \in {1, TokenTTL} : TickSeq(d)
    \/ \E r \in Req :
        \/ StartAuthed(r)
        \/ AuthToken(r)
        \/ Logout(r)
        \/ canVoteToday(r)

SpecAuth == Init /\ [][NextAuth]_vars

(***************************************************************************)
(* SpecLive: concurrent votes on poll p1 with a healthy store and weak     *)
(* fairness on every handler: an await that can resume does resume.        *)
(***************************************************************************)
NextLive ==
    \E r \in Req :
        \/ r <= MaxConc /\ StartVote(r)
        \/ castVote(r)

SpecLive ==
    Init /\ [][NextLive]_vars /\ \A r \in Req : WF_vars(castVote(r))

(***************************************************************************)
(* SpecPct: result reads of poll p1 over a store that already holds votes. *)
(* Each voter has voted at most once on p1 (the unique constraint): the    *)
(* first a voters for o1, the next b for o2.                               *)
(***************************************************************************)
RowsOf(a, b) ==
    {[id |-> 0 - u, user_id |-> u, poll_id |-> "p1",
      option_id |-> IF u <= a THEN "o1" ELSE "o2", voted_at |-> T0] :
        u \in {w \in Voters : w <= a + b}}

\* what updateVoteCount has left in vote_count after n votes on an option
StoredCount(n) == IF n = 0 THEN 0 ELSE n - 1

InitPct ==
    /\ InitCommon
    /\ \E a \in 0..MaxVoters : \E b \in 0..(MaxVoters - a) :
        /\ vote_records = RowsOf(a, b)
        /\ vote_count = [o \in Options |->
              CASE o = "o1" -> StoredCount(a)
                [] o = "o2" -> StoredCount(b)
                [] OTHER -> 0]

NextPct ==
    \E r \in Req :
        \/ r <= MaxConc /\ StartResults(r)
        \/ getResultsAnon(r)

SpecPct == InitPct /\ [][NextPct]_vars

(***************************************************************************)
(* Vocabulary of the properties.                                           *)
(***************************************************************************)
VoteReqs == {r \in Req : args[r].kind = "vote"}
ResultReqs == {r \in Req : args[r].kind = "results"}
Done(r) == pc[r] = "done"
SameVoterPoll(r, q) == args[r].user = args[q].user /\ args[r].poll = args[q].poll
Overlap(r, q) == r # q /\ r \notin doneBefore[q] /\ q \notin doneBefore[r]
Persisted(r) == \E v \in vote_records : v.id = r
Succeeded(S) == {r \in S : resp[r].code = 201}

(***************************************************************************)
(* C1: in every reachable state the store holds at most one VoteRecord per *)
(* (voter, poll, calendar day), whatever the interleaving of concurrent    *)
(* castVote calls by one voter on one poll with differing options.         *)
(***************************************************************************)
C1_OneVotePerVoterPollDay ==
    \A v, w \in vote_records :
        (/\ v.user_id = w.user_id
         /\ v.poll_id = w.poll_id
         /\ DbDay(v.voted_at) = DbDay(w.voted_at)) => v = w

\* two overlapping votes of one voter with differing options have both
\* finished and a row of that voter is stored
C1_Witness ==
    \E r, q \in VoteReqs :
        /\ Overlap(r, q) /\ SameVoterPoll(r, q)
        /\ args[r].option # args[q].option
        /\ Done(r) /\ Done(q)
        /\ Persisted(r)

C3_NextDayVoteSucceeds ==
    \A r, q \in VoteReqs :
        (/\ SameVoterPoll(r, q)
         /\ resp[r].code = 201
         /\ r \in doneBefore[q] /\ Done(q)
         /\ DbDay(loc[q].t0) = DbDay(loc[r].t0) + 1
         /\ loc[q].t0 - loc[r].t0 >= MarkerTTL
         /\ polls[args[q].poll].exists /\ polls[args[q].poll].is_active
         /\ (polls[args[q].poll].end_date = NULL
               \/ polls[args[q].poll].end_date > loc[q].t0)
         /\ args[q].option \in OptionsOf(args[q].poll))
        => /\ resp[q].code = 201
           /\ Cardinality({v \in vote_records :
                  v.user_id = args[q].user /\ v.poll_id = args[q].poll}) = 2

(***************************************************************************)
(* C4: after a castVote on a poll has answered 201, the next getResults of *)
(* that poll reports a total and per-option counts that include the vote.  *)
(***************************************************************************)
C4_NextReadIncludesVote ==
    \A r \in VoteReqs, g \in ResultReqs :
        (/\ resp[r].code = 201
         /\ args[g].poll = args[r].poll
         /\ r \in doneBefore[g]
         /\ ~\E h \in ResultReqs : h < g /\ r \in doneBefore[h]
         /\ Done(g) /\ resp[g].code = 200)
        => \A v \in out[g] :
              LET seen == Succeeded(VoteReqs \cap doneBefore[g])
              IN  /\ v.totalVotes >= Cardinality(seen)
                  /\ \A o \in v.opts :
                        v.voteCount[o] >=
                            Cardinality({x \in seen : args[x].option = o})

(***************************************************************************)
(* C5: two castVote calls in sequence by one voter on one poll on one day: *)
(* the first answers 201, the second answers 429 and adds no VoteRecord.   *)
(***************************************************************************)
C5_SecondVoteRejected ==
    \A r \in VoteReqs :
        /\ (/\ \A q \in VoteReqs \ {r} : SameVoterPoll(r, q) => r \in doneBefore[q]
            /\ Done(r) /\ faults = 0) => resp[r].code = 201
        /\ \A q \in VoteReqs :
              (/\ SameVoterPoll(r, q)
               /\ resp[r].code = 201
               /\ r \in doneBefore[q]
               /\ Done(q)) => resp[q].code = 429 /\ ~Persisted(q)

\* a vote answered 201, then a second one of the same voter, with another
\* option, was sent and has finished
C5_Witness ==
    \E r, q \in VoteReqs :
        /\ SameVoterPoll(r, q) /\ args[r].option # args[q].option
        /\ resp[r].code = 201 /\ Persisted(r)
        /\ r \in doneBefore[q] /\ Done(q)

(***************************************************************************)
(* C6: with the cache unavailable, castVote succeeds exactly when the      *)
(* store-side preconditions hold (poll exists, is active, ends in the      *)
(* future or never, option belongs to the poll, no VoteRecord of today)    *)
(* and then persists the VoteRecord; getResults returns the tally of the   *)
(* store; no request answers 500.                                          *)
(***************************************************************************)
StorePreconditions(r) ==
    LET row == polls[args[r].poll] IN
    /\ row.exists /\ row.is_active
    /\ (row.end_date = NULL \/ row.end_date > loc[r].t0)
    /\ args[r].option \in OptionsOf(args[r].poll)
    /\ ~\E v \in vote_records :
          /\ v.id # r
          /\ v.user_id = args[r].user /\ v.poll_id = args[r].poll
          /\ DbDay(v.voted_at) = DbDay(loc[r].t0)

Latest(r) == \A q \in Req : q > r => pc[q] = "idle"

C6_CacheDownStoreDecides ==
    ~cacheUp =>
        \A r \in Req : Done(r) =>
            /\ resp[r].code # 500
            /\ r \in VoteReqs =>
                  /\ resp[r].code = 201 <=> StorePreconditions(r)
                  /\ resp[r].code = 201 => Persisted(r)
            /\ (r \in ResultReqs /\ resp[r].code = 200 /\ Latest(r)) =>
                  \A v \in out[r] :
                      /\ v.totalVotes = CountByPoll(args[r].poll)
                      /\ \A o \in v.opts : v.voteCount[o] = CountByOption(o)

(***************************************************************************)
(* C7: when a castVote ended in a transient failure, a retry by the same   *)
(* voter on the same poll the same day, met by a healthy store and with no *)
(* VoteRecord of that voter on that poll, succeeds.                        *)
(***************************************************************************)
C7_RetryAfterTransientSucceeds ==
    \A r, q \in VoteReqs :
        (/\ SameVoterPoll(r, q)
         /\ resp[r].code = 500
         /\ r \in doneBefore[q] /\ Done(q)
         /\ resp[q].code # 500
         /\ ~\E v \in vote_records :
               v.id # q /\ v.user_id = args[q].user /\ v.poll_id = args[q].poll)
        => resp[q].code = 201

(***************************************************************************)
(* C8: a castVote that ends in a transient store failure has added no      *)
(* VoteRecord and has changed no option's stored vote_count.               *)
(***************************************************************************)
C8_TransientLeavesStoreUntouched ==
    \A r \in VoteReqs :
        resp[r].code = 500 => ~Persisted(r) /\ ~loc[r].changed

(***************************************************************************)
(* C9: castVote on an existing, active poll whose end timestamp is equal   *)
(* to now or in the past answers PollEnded; castVote on a poll with no end *)
(* timestamp never answers PollEnded.                                      *)
(***************************************************************************)
C9_EndedPollRejected ==
    \A r \in VoteReqs : Done(r) =>
        LET row == polls[args[r].poll] IN
        /\ (/\ row.exists /\ row.is_active
            /\ row.end_date # NULL /\ row.end_date <= loc[r].t0)
           => resp[r].reason = "PollEnded"
        /\ row.end_date = NULL => resp[r].reason # "PollEnded"

(***************************************************************************)
(* C10: in every result view, each option's percentage is the integer      *)
(* nearest to optionVotes / totalVotes * 100 (a half rounds up) when       *)
(* totalVotes > 0 and is 0 when totalVotes = 0; it lies in 0..100.         *)
(***************************************************************************)
C10_Percentages ==
    \A r \in ResultReqs : \A v \in out[r] : \A o \in v.opts :
        LET c == v.voteCount[o]
            t == v.totalVotes
            p == v.percentage[o]
        IN  /\ p \in 0..100
            /\ t = 0 => p = 0
            /\ t > 0 => 200 * c - t < 2 * t * p /\ 2 * t * p <= 200 * c + t

(***************************************************************************)
(* C11: castVote reports the first failing precondition in the order poll  *)
(* missing (404 NotFound), poll inactive (400), poll ended, i.e. its end   *)
(* timestamp is not in the future (400), option not in the poll (400),     *)
(* cache marker present (429), store record of today (429); when several   *)
(* fail at once only the earliest is reported.                             *)
(***************************************************************************)
MarkerAtArrival(r) ==
    /\ cacheUp /\ ~Persisted(r)
    /\ \E m \in markers :
          /\ m.user = args[r].user /\ m.poll = args[r].poll
          /\ m.day = CacheDay(loc[r].t0) /\ loc[r].t0 < m.exp

RecordAtArrival(r) ==
    \E v \in vote_records :
        /\ v.id # r
        /\ v.user_id = args[r].user /\ v.poll_id = args[r].poll
        /\ DbDay(v.voted_at) = DbDay(loc[r].t0)

C11_FirstFailureReported ==
    \A r \in VoteReqs : (Done(r) /\ Latest(r)) =>
        LET row == polls[args[r].poll] IN
        IF ~row.exists THEN resp[r] = Reply(404, "NotFound")
        ELSE IF ~row.is_active THEN resp[r] = Reply(400, "PollInactive")
        ELSE IF row.end_date # NULL /\ row.end_date <= loc[r].t0
             THEN resp[r] = Reply(400, "PollEnded")
        ELSE IF args[r].option \notin OptionsOf(args[r].poll)
             THEN resp[r] = Reply(400, "InvalidOption")
        ELSE IF MarkerAtArrival(r) THEN resp[r] = Reply(429, "VotedCache")
        ELSE IF RecordAtArrival(r) THEN resp[r] = Reply(429, "VotedStore")
        ELSE TRUE

(***************************************************************************)
(* C12: when the store holds a VoteRecord of voter V on poll P dated       *)
(* today, a castVote by V on P (poll active and not ended, option valid)   *)
(* answers AlreadyVotedToday at the cache check or the store check,        *)
(* whatever the cache holds or answers: the marker may never have been     *)
(* set, may be lost, or the cache may be unreachable.                      *)
(***************************************************************************)
VotedBefore(q) ==
    \E v \in vote_records :
        /\ v.id \in doneBefore[q]
        /\ v.user_id = args[q].user /\ v.poll_id = args[q].poll
        /\ DbDay(v.voted_at) = DbDay(loc[q].t0)

OpenPoll(q) ==
    LET row == polls[args[q].poll] IN
    /\ row.exists /\ row.is_active
    /\ (row.end_date = NULL \/ row.end_date > loc[q].t0)
    /\ args[q].option \in OptionsOf(args[q].poll)

C12_StoreIsTiebreaker ==
    \A q \in VoteReqs :
        (Done(q) /\ VotedBefore(q) /\ OpenPoll(q)) =>
            /\ resp[q].code = 429
            /\ resp[q].reason \in {"VotedCache", "VotedStore"}
            /\ ~Persisted(q)

\* a second vote of the day was refused by the store check while the cache,
\* reachable again, holds no marker of that voter
C12_Witness ==
    \E q \in VoteReqs :
        /\ Done(q) /\ VotedBefore(q) /\ OpenPoll(q)
        /\ resp[q] = Reply(429, "VotedStore")
        /\ cacheUp /\ outages > 0
        /\ ~\E m \in markers : m.user = args[q].user /\ m.poll = args[q].poll

(***************************************************************************)
(* C13: canVoteToday has no side effects: no step of the eligibility       *)
(* query, whatever its outcome (404, canVote true, canVote false with any  *)
(* reason, 500), changes the store's polls, options and VoteRecords or the *)
(* cache's markers and snapshots.                                          *)
(***************************************************************************)
CanVoteReqs == {r \in Req : args[r].kind = "canvote"}

C13_CanVoteReadOnly ==
    [][\A r \in CanVoteReqs : pc'[r] # pc[r] => UNCHANGED <<store, cache>>]_vars

\* an eligibility query has answered "already voted" over a store and a
\* cache that hold the vote
C13_Witness ==
    \E r \in CanVoteReqs :
        /\ Done(r) /\ resp[r] = Reply(200, "AlreadyVoted")
        /\ \E v \in vote_records :
              v.user_id = args[r].user /\ v.poll_id = args[r].poll
        /\ \E m \in markers : m.user = args[r].user /\ m.poll = args[r].poll

(***************************************************************************)
(* C14: on every exit path of castVote (success, invalid body, each failed *)
(* precondition, uniqueness violation, other error) every connection the   *)
(* request checked out has been released exactly once when the request     *)
(* finishes, and no connection stays held once no request is running.      *)
(***************************************************************************)
C14_ConnectionsReleased ==
    /\ \A r \in VoteReqs :
          /\ loc[r].released <= loc[r].clients
          /\ Done(r) => loc[r].clients >= 1 /\ loc[r].released = loc[r].clients
    /\ InFlight = {} => poolFree = PoolSize

\* a vote whose recount failed has finished: both its connections are back
C14_Witness ==
    \E r \in VoteReqs :
        /\ Done(r) /\ loc[r].err = "57014"
        /\ loc[r].clients = 2 /\ loc[r].released = 2
        /\ poolFree = PoolSize

(***************************************************************************)
(* C15: a store error raised inside castVote's transaction other than a    *)
(* uniqueness violation ends with the transaction rolled back and a 500    *)
(* Transient response; a uniqueness violation ends with a 429 response;    *)
(* in both cases exactly one response has been sent when the request       *)
(* finishes.                                                               *)
(***************************************************************************)
C15_StoreErrorAnswered ==
    \A r \in VoteReqs : Done(r) =>
        /\ loc[r].err = "23505" => resp[r].code = 429
        /\ loc[r].err \notin {"", "23505"} =>
              /\ resp[r] = Reply(500, "Transient")
              /\ txn[r] = {} /\ ~Persisted(r)
        /\ resp[r].code # 0

(***************************************************************************)
(* C16: a cached snapshot is never served after its time-to-live: a view   *)
(* that getResults serves from the cache at time t' was computed and       *)
(* written by a read at a time t with t' <= t + 300, so a read after the   *)
(* expiry recomputes the view from the store.                              *)
(***************************************************************************)
C16_SnapshotExpires ==
    \A g \in ResultReqs :
        (Done(g) /\ resp[g].reason = "Cached") =>
            \E h \in ResultReqs \cap doneBefore[g] :
                /\ args[h].poll = args[g].poll
                /\ resp[h].reason = "Computed"
                /\ out[h] = out[g]
                /\ loc[g].t0 <= loc[h].t0 + SnapshotTTL

\* with Redis up and no vote at all, a read that came 300 s or more after
\* the read that wrote the snapshot has computed the view again
C16_Witness ==
    /\ cacheUp /\ VoteReqs = {}
    /\ \E g \in ResultReqs : \E h \in ResultReqs \cap doneBefore[g] :
          /\ args[h].poll = args[g].poll
          /\ resp[h].reason = "Computed"
          /\ Done(g) /\ resp[g].reason = "Computed"
          /\ loc[g].t0 >= loc[h].t0 + SnapshotTTL

(***************************************************************************)
(* C17: once every castVote of a run has completed, all of them without a  *)
(* store failure, each option's stored vote_count equals the number of     *)
(* VoteRecords that reference the option: the recount sees the vote just   *)
(* inserted.                                                               *)
(***************************************************************************)
C17_CountMatchesRecords ==
    (InFlight = {} /\ faults = 0) =>
        \A o \in Options : vote_count[o] = CountByOption(o)

(***************************************************************************)
(* C18: the marker of (V, P, day) is written only after the vote has been  *)
(* committed: in every reachable state a marker in the cache implies a     *)
(* committed VoteRecord of V on P of that day.                             *)
(***************************************************************************)
C18_MarkerImpliesRecord ==
    \A m \in markers :
        \E v \in vote_records :
            /\ v.user_id = m.user /\ v.poll_id = m.poll
            /\ DbDay(v.voted_at) = m.day

(***************************************************************************)
(* C19: when a getResults(P) that missed the cache overlaps a successful   *)
(* castVote on P, then once both have finished the cache holds no snapshot *)
(* of P whose counts exclude that vote.  A snapshot that includes the vote *)
(* counts, for the voted option, the vote and every record stored before   *)
(* the vote arrived.                                                       *)
(***************************************************************************)
StoredBefore(r) ==
    {v \in vote_records : v.option_id = args[r].option /\ v.id \in doneBefore[r]}

C19_NoStaleSnapshotAfterVote ==
    \A g \in ResultReqs, r \in VoteReqs :
        (/\ Overlap(g, r) /\ args[g].poll = args[r].poll
         /\ Done(g) /\ resp[g].reason = "Computed"
         /\ Done(r) /\ resp[r].code = 201)
        => \A s \in snapshots :
              (s.poll = args[r].poll /\ now < s.exp) =>
                  s.view.voteCount[args[r].option] >=
                      1 + Cardinality(StoredBefore(r))

(***************************************************************************)
(* C20: the requester-specific fields of a result view depend only on the  *)
(* requester and the store: hasVotedToday is true iff the requester has a  *)
(* VoteRecord on the poll today, canEdit is true iff the requester is the  *)
(* poll's creator, whoever populated the cached snapshot.                  *)
(***************************************************************************)
C20_RequesterFields ==
    \A g \in ResultReqs :
        (Done(g) /\ Latest(g) /\ resp[g].code = 200) =>
            \A v \in out[g] :
                /\ v.canEdit = (args[g].user = polls[args[g].poll].creator_id)
                /\ v.hasVotedToday =
                      (/\ args[g].user # NoUser
                       /\ ExistingVoteToday(args[g].user, args[g].poll,
                                            loc[g].t0) # {})

(***************************************************************************)
(* C21: under fair scheduling every castVote request eventually finishes   *)
(* (has answered and released its connections), however many concurrent    *)
(* requests hold one pooled connection each while they wait for a second   *)
(* one in updateVoteCount.                                                 *)
(***************************************************************************)
C21_VotesFinish ==
    \A r \in Req : (pc[r] = "connect") ~> (pc[r] = "done")

(***************************************************************************)
(* C22: canVoteToday agrees with castVote: when canVoteToday(V, P) has     *)
(* answered true and the next operation, at the same instant, is a         *)
(* castVote by V on P with an option of P, that castVote succeeds: it is   *)
(* not rejected as AlreadyVotedToday, PollInactive, PollEnded or NotFound. *)
(***************************************************************************)
C22_CanVoteAgreesWithCastVote ==
    \A c \in CanVoteReqs, q \in VoteReqs :
        (/\ q = c + 1 /\ SameVoterPoll(c, q)
         /\ resp[c] = Reply(200, "CanVote")
         /\ Done(q) /\ loc[q].t0 = loc[c].t0
         /\ args[q].option \in OptionsOf(args[q].poll))
        => /\ resp[q].code = 201
           /\ resp[q].reason \notin {"NotFound", "PollInactive", "PollEnded",
                                     "VotedCache", "VotedStore", "VotedUnique"}

(***************************************************************************)
(* C23: in every result view computed on a cache miss, totalVotes equals   *)
(* the sum of the options' voteCount values, also when votes commit        *)
(* between the store queries of the view.                                  *)
(***************************************************************************)
RECURSIVE SumCounts(_, _)
SumCounts(f, S) ==
    IF S = {} THEN 0
    ELSE LET o == CHOOSE x \in S : TRUE
         IN  f[o] + SumCounts(f, S \ {o})

C23_TotalIsSumOfCounts ==
    \A g \in ResultReqs :
        (Done(g) /\ resp[g].reason = "Computed") =>
            \A v \in out[g] : v.totalVotes = SumCounts(v.voteCount, v.opts)

(***************************************************************************)
(* C24: the marker key, the voted-today query and the uniqueness           *)
(* constraint use one calendar-day definition: any two vote instants of    *)
(* one (voter, poll) are same-day for all three or for none, so an INSERT  *)
(* that passed the voted-today query with no concurrent attempt never      *)
(* raises the uniqueness violation.                                        *)
(***************************************************************************)
C24_OneDayDefinition ==
    \A q \in VoteReqs : Done(q) =>
        /\ \A r \in VoteReqs :
              (SameVoterPoll(r, q) /\ resp[r].code = 201 /\ OpenPoll(q)) =>
                  LET sameCacheDay == CacheDay(loc[r].t0) = CacheDay(loc[q].t0)
                      sameDbDay == DbDay(loc[r].t0) = DbDay(loc[q].t0)
                      sameKey == UniqueKey(NewVote(r)) = UniqueKey(NewVote(q))
                  IN  sameCacheDay = sameDbDay /\ sameDbDay = sameKey
        /\ (\A r \in VoteReqs \ {q} : ~Overlap(r, q)) =>
              resp[q].reason # "VotedUnique"

(***************************************************************************)
(* C25: getResults(P) answers NotFound (404) whenever poll P is absent     *)
(* from the store at the time of the call, in particular after a           *)
(* deletePoll(P) that succeeded, even if a snapshot of P was cached before *)
(* the deletion.                                                           *)
(***************************************************************************)
C25_DeletedPollNotFound ==
    \A g \in ResultReqs :
        (Done(g) /\ Latest(g) /\ ~polls[args[g].poll].exists) =>
            resp[g] = Reply(404, "NotFound")

(***************************************************************************)
(* C30: a poll is changed or deleted only by its creator.  A well-formed   *)
(* updatePoll or deletePoll by another user answers 403, and no step of    *)
(* such a request changes the poll, its options or its VoteRecords; a      *)
(* deletePoll that succeeds was requested by the creator and removes the   *)
(* poll with all its options and VoteRecords.                              *)
(***************************************************************************)
AdminReqs == {r \in Req : args[r].kind \in {"update", "delete"}}

NotCreator(r) ==
    /\ polls[args[r].poll].exists
    /\ polls[args[r].poll].creator_id # args[r].user

PollGone(p) ==
    /\ ~polls[p].exists
    /\ OptionsOf(p) = {}
    /\ \A v \in vote_records : v.poll_id # p

C30_OnlyCreatorChangesPoll ==
    /\ [](\A r \in AdminReqs :
            /\ (Done(r) /\ NotCreator(r) /\ args[r].body # "past")
                  => resp[r] = Reply(403, "Forbidden")
            /\ resp[r] = Reply(200, "Deleted")
                  => polls[args[r].poll].creator_id = args[r].user
            /\ (resp[r] = Reply(200, "Deleted") /\ Latest(r))
                  => PollGone(args[r].poll))
    /\ [][\A r \in AdminReqs :
            (NotCreator(r) /\ pc'[r] # pc[r]) => UNCHANGED store]_vars

\* a vote was stored, another user's deletion was refused, and the creator's
\* deletion has removed the poll with its options and the vote
C30_Witness ==
    \E v \in VoteReqs, f, d \in AdminReqs :
        /\ args[f].kind = "delete" /\ args[d].kind = "delete"
        /\ resp[v].code = 201 /\ args[v].poll = args[d].poll
        /\ v \in doneBefore[f] /\ f \in doneBefore[d]
        /\ args[f].poll = args[d].poll
        /\ resp[f] = Reply(403, "Forbidden")
        /\ resp[d] = Reply(200, "Deleted")
        /\ PollGone(args[d].poll)

(***************************************************************************)
(* C26: after a logout of an unexpired token T has succeeded with the      *)
(* cache available, every later request that presents T is rejected by     *)
(* authenticateToken with 401 "Token has been invalidated" until T would   *)
(* have expired; the logout of T affects no other token.                   *)
(***************************************************************************)
LogoutReqs == {r \in Req : args[r].kind = "logout"}

LoggedOutBefore(q, t) ==
    \E l \in LogoutReqs \cap doneBefore[q] :
        args[l].token = t /\ resp[l] = Reply(200, "LoggedOut")

C26_LogoutInvalidatesToken ==
    cacheUp =>
        \A q \in Req :
            (Done(q) /\ args[q].token \in Tokens
               /\ loc[q].t0 < TokenExp(args[q].token)) =>
                (resp[q] = Reply(401, "Invalidated")
                    <=> LoggedOutBefore(q, args[q].token))

(***************************************************************************)
(* C27: on a cache miss the voteCount reported for each option is the      *)
(* number of VoteRecords that reference the option at read time, whatever  *)
(* the option's stored vote_count column holds.  For a read that no vote   *)
(* overlaps, the records at read time are those of the votes that had      *)
(* finished when the read arrived.                                         *)
(***************************************************************************)
RecordsAtRead(g, o) ==
    {v \in vote_records : v.option_id = o /\ v.id \in doneBefore[g]}

C27_LiveCountInView ==
    \A g \in ResultReqs :
        (/\ Done(g) /\ resp[g].reason = "Computed"
         /\ \A r \in VoteReqs : ~Overlap(r, g))
        => \A v \in out[g] : \A o \in v.opts :
              v.voteCount[o] = Cardinality(RecordsAtRead(g, o))

\* a computed view counts the vote of an option whose stored counter has
\* drifted to another value
C27_Witness ==
    \E g \in ResultReqs :
        /\ Done(g) /\ resp[g].reason = "Computed"
        /\ \A r \in VoteReqs : ~Overlap(r, g)
        /\ \E v \in out[g] : \E o \in v.opts :
              /\ v.voteCount[o] = 1
              /\ Cardinality(RecordsAtRead(g, o)) = 1
              /\ vote_count[o] # v.voteCount[o]

(***************************************************************************)
(* C28: a vote marker written on calendar day D never makes the cache      *)
(* check report "already voted" on day D+1, although its 25-hour           *)
(* time-to-live may not have elapsed: hasVotedToday(V, P) is true only if  *)
(* a marker for (V, P) was written on the current day, and a castVote      *)
(* answered from the cache check follows a marked vote of the same day.    *)
(***************************************************************************)
UtcDay(t) == t \div DaySeconds
WrittenAt(m) == m.exp - MarkerTTL

C28_MarkerIsPerDay ==
    /\ \A u \in Requesters, p \in PollIds :
          hasVotedToday(u, p) =>
              \E m \in markers :
                  /\ m.user = u /\ m.poll = p
                  /\ UtcDay(WrittenAt(m)) = UtcDay(now)
    /\ \A q \in VoteReqs :
          (Done(q) /\ resp[q].reason = "VotedCache") =>
              \E r \in VoteReqs \cap doneBefore[q] :
                  /\ SameVoterPoll(r, q) /\ resp[r].code = 201
                  /\ UtcDay(loc[r].t0) = UtcDay(loc[q].t0)

\* the day after a marked vote, with the marker still alive in Redis, the
\* same voter's castVote on the same poll passes the cache check
C28_Witness ==
    \E q \in VoteReqs : \E r \in VoteReqs \cap doneBefore[q] :
        /\ Done(q) /\ SameVoterPoll(r, q) /\ resp[r].code = 201
        /\ UtcDay(loc[q].t0) = UtcDay(loc[r].t0) + 1
        /\ now = loc[q].t0
        /\ cacheUp
        /\ \E m \in markers :
              /\ m.user = args[q].user /\ m.poll = args[q].poll
              /\ WrittenAt(m) = loc[r].t0 /\ now < m.exp
        /\ ~hasVotedToday(args[q].user, args[q].poll)
        /\ resp[q].code \in {201, 429} /\ resp[q].reason # "VotedCache"

(***************************************************************************)
(* C29: in every reachable state every VoteRecord references an option     *)
(* that belongs to the record's poll; a castVote whose option does not     *)
(* exist or belongs to another poll adds no VoteRecord and, once the       *)
(* request has passed the poll checks, is answered InvalidOption.          *)
(***************************************************************************)
ForeignOption(r) ==
    /\ args[r].option # BadId
    /\ ~(args[r].option \in Options /\ OptPoll(args[r].option) = args[r].poll)

PassedPollChecks(r) ==
    LET row == polls[args[r].poll] IN
        /\ row.exists /\ row.is_active
        /\ (row.end_date = NULL \/ row.end_date >= loc[r].t0)

C29_RecordOptionInPoll ==
    /\ \A v \in vote_records :
          v.option_id \in Options /\ OptPoll(v.option_id) = v.poll_id
    /\ \A r \in VoteReqs :
          (Done(r) /\ ForeignOption(r)) =>
              /\ ~Persisted(r)
              /\ resp[r].code # 201
              /\ (PassedPollChecks(r) /\ resp[r].code \notin {0, 500})
                    => resp[r] = Reply(400, "InvalidOption")

\* one castVote naming an option of another poll and one naming an option
\* that does not exist have both been answered InvalidOption
C29_Witness ==
    \E r, q \in VoteReqs :
        /\ Done(r) /\ Done(q)
        /\ args[r].option = GhostId /\ resp[r] = Reply(400, "InvalidOption")
        /\ args[q].option \in Options /\ OptPoll(args[q].option) # args[q].poll
        /\ resp[q] = Reply(400, "InvalidOption")
        /\ \A v \in vote_records : v.id \notin {r, q}

====
